---- MODULE Spec2Model ----
(***************************************************************************)
(* A model of the news-ingestion pipeline of this repository:              *)
(*   google_news_business_scraper.py  feed fetcher, content resolver,      *)
(*                                    notifier, main() and the driver loop *)
(*   isin.py                          entity extractor                     *)
(*   isin_matcher.py                  identifier matcher                   *)
(*   prompts.py                       summarizer                           *)
(* Every external collaborator (RSS endpoint, browser, LLM, spreadsheet,   *)
(* webhook, wall clock) is an input chosen from a small set.               *)
(***************************************************************************)
EXTENDS Integers, Sequences, FiniteSets, TLC

VARIABLES
    \* ---- the feed fetcher called on its own (SpecFetch)
    rss_items,            \* the <item> elements of the polled feed
    resp_status,          \* the feed request: "none" (not made), "ok" or "error"
    fetch_processed,      \* the processed_articles argument
    fetch_clock,          \* [utc, local_tz]: the poll instant and the process's zone
    fetch_result,         \* [done, articles]: the returned articles_data once called
    \* ---- the identifier matcher called on its own (SpecMatcher)
    match_in,             \* [company_name, table, scorer, top_n, min_score]
    match_out,            \* [done, raised, results]
    \* ---- the entity extractor called on its own (SpecExtract)
    extract_in,           \* [api_key, article_text, article_title, reply]
    extract_out,          \* [done, raised, llm_called, name]
    \* ---- the summarizer called on its own (SpecSummarize)
    sum_in,               \* [api_key, articles, answers]
    sum_out,              \* [done, raised, summarized, calls]
    \* ---- the notifier called on its own (SpecNotify)
    notify_in,            \* [slack_url, message, statuses]
    notify_out,           \* [done, raised, posts]
    \* ---- one pass of main over one feed (SpecMain)
    main_in,              \* [feed, fates]
    main_out,             \* [done, articles, scraped, posts]
    \* ---- the driver loop and main() (Spec)
    config,               \* [gemini_key, slack_url]: which settings are present
    processed_articles,   \* the dedup set of (title, source) keys
    iteration,            \* the iteration counter
    pc,                   \* where the driver is
    iteration_outcome,    \* "completed" or "error" once the try block is left
    raised,               \* the exception propagating to the driver, or "none"
    stopped_by,           \* how the loop was left, or "none"
    articles,             \* main: what fetch_business_news_rss returned
    scraped_articles,     \* main: what scrape_all_articles returned
    articles_with_isin,   \* main: articles whose company has a match
    all_matches,          \* main: the matcher's results per matched company
    summarized_articles,  \* summarize_multiple_articles: its result list
    slack_messages,       \* main: the formatted messages
    posts,                \* send_slack_message: the requests.post calls made
    llm_calls,            \* the calls of the extractor and the summarizer in this iteration
    processed_articles_list,  \* what main returned to the driver
    webhook_log,          \* SpecLife: every post answered 200 since the start, [key, iteration]
    real_duration,        \* seconds that really passed between lines 601 and 649
    elapsed_time,         \* line 649, seconds
    sleep_seconds,        \* line 650
    slept                 \* seconds spent in time.sleep

fetch_vars == <<rss_items, resp_status, fetch_processed, fetch_clock, fetch_result>>
match_vars == <<match_in, match_out>>
extract_vars == <<extract_in, extract_out>>
sum_vars == <<sum_in, sum_out>>
notify_vars == <<notify_in, notify_out>>
pass_vars == <<main_in, main_out>>

main_locals == <<articles, scraped_articles, articles_with_isin, all_matches, summarized_articles,
                 slack_messages, posts, llm_calls, processed_articles_list>>
timing_vars == <<real_duration, elapsed_time, sleep_seconds, slept>>
driver_vars == <<config, webhook_log, processed_articles, iteration, pc, iteration_outcome, raised, stopped_by,
                 main_locals, timing_vars>>

\* what the driver never touches
other_vars == <<fetch_processed, fetch_clock, fetch_result, match_vars, extract_vars, sum_vars, notify_vars, pass_vars>>

vars == <<fetch_vars, match_vars, extract_vars, sum_vars, notify_vars, pass_vars, driver_vars>>

(***************************************************************************)
(* Bounds of the model                                                     *)
(***************************************************************************)
MaxFeed == 2          \* most <item> elements in one polled feed
MaxIter == 2          \* iterations of the driver loop that are followed
MaxRows == 3          \* most rows of the reference table
MaxTopN == 3          \* largest top_n the matcher is called with
MaxNameLen == 3       \* longest generated company name in an LLM reply
MaxTextLen == 2       \* longest generated article text
MaxArts == 2          \* most articles handed to the summarizer on its own
MaxMsgs == 2          \* most objects in a list handed to the notifier on its own
MaxStories == 3       \* most feed items in one pass of main on its own

NoneVal == "None"     \* Python's None / a missing XML element

RECURSIVE SeqsUpTo(_, _)
SeqsUpTo(S, n) ==
    IF n = 0 THEN {<<>>}
    ELSE LET shorter == SeqsUpTo(S, n - 1)
         IN  shorter \cup {Append(s, x) : s \in {t \in shorter : Len(t) = n - 1}, x \in S}

Max(a, b) == IF a >= b THEN a ELSE b

(***************************************************************************)
(* fetch_business_news_rss (google_news_business_scraper.py 29-139)        *)
(*                                                                         *)
(* Times are minutes.  A pubDate string is represented by the datetime     *)
(* dateutil parses it to: kind "aware" (utc instant + tz offset), "naive"  *)
(* (wall clock only, held in utc with tz 0) or "bad" (parse raises).       *)
(***************************************************************************)
time_window_minutes == 1440

GoogleLink == "https://news.google.com/rss/articles/a"
DirectLink == "https://example.com/a"

IsGoogleNewsUrl(url) == url = GoogleLink        \* 'news.google.com' in url

\* datetime.now(): the naive local wall clock of the process
datetime_now(clock) == clock.utc + clock.local_tz

BadDate == [kind |-> "bad", utc |-> 0, tz |-> 0]

\* item.find('pubDate').get_text() if item.find('pubDate') else "Unknown"
pub_date_of(item) == IF item.pubDate = NoneVal THEN "Unknown" ELSE item.pubDate

\* date_parser.parse(pub_date) raises for "Unknown" and for unparseable text
parse_raises(pub_date) == pub_date = "Unknown" \/ pub_date = "garbage"

\* date_parser.parse(pub_date) followed by replace(tzinfo=None): the wall
\* clock fields of the stamp in the stamp's own zone, the zone dropped
naive_article_time(stamp) == stamp.utc + stamp.tz

StampOf(item) == item.stamp

\* line 89: article_time < cutoff_time
older_than_cutoff(item, current_time) ==
    naive_article_time(StampOf(item)) < current_time - time_window_minutes

\* a filter that also drops the items whose date it cannot read
passes_time_filter_strict(item, current_time) ==
    ~parse_raises(pub_date_of(item)) /\ ~older_than_cutoff(item, current_time)

\* lines 76-97: TRUE when the time filter lets the item through
passes_time_filter(item, current_time) ==
    IF parse_raises(pub_date_of(item)) THEN TRUE
    ELSE ~older_than_cutoff(item, current_time)

title_of(item) == IF item.title = NoneVal THEN "No Title" ELSE item.title
source_of(item) == IF item.source = NoneVal THEN "Unknown" ELSE item.source
link_of(item) == item.link

\* line 100
article_id_of(item) == <<title_of(item), source_of(item)>>

\* a fetcher that forgets the membership test of line 103
already_processed_skipped(item, processed) == FALSE

\* line 103
already_processed(item, processed) == article_id_of(item) \in processed

\* lines 107-113
article_dict(item) ==
    [title |-> title_of(item), link |-> link_of(item), source |-> source_of(item),
     pub_date |-> pub_date_of(item), stamp |-> StampOf(item),
     article_id |-> article_id_of(item)]

\* line 73: if link; None (no <link> element) and "" (an empty one) are falsy
has_link(item) == link_of(item) \notin {NoneVal, ""}

\* lines 65-117: the loop over the items, in feed order
RECURSIVE fetch_loop(_, _, _)
fetch_loop(items, processed, current_time) ==
    IF items = <<>> THEN <<>>
    ELSE LET item == Head(items)
             rest == fetch_loop(Tail(items), processed, current_time)
         IN  IF ~has_link(item) THEN rest
             ELSE IF ~passes_time_filter(item, current_time) THEN rest
             ELSE IF already_processed(item, processed) THEN rest
             ELSE <<article_dict(item)>> \o rest

\* a fetcher without the handler of lines 137-139
fetch_ignoring_failure(request_ok, items, processed, clock) ==
    fetch_loop(items, processed, datetime_now(clock))

\* lines 40-139: request_ok is FALSE when requests.get, raise_for_status or
\* the XML parse raises; the handler at 137-139 returns []
fetch_business_news_rss(request_ok, items, processed, clock) ==
    IF ~request_ok THEN <<>>
    ELSE fetch_loop(items, processed, datetime_now(clock))

(***************************************************************************)
(* The inputs of SpecFetch                                                 *)
(***************************************************************************)
PollUtc == 7 * time_window_minutes      \* the instant of the poll, minutes

Stamp(age, tz) == [kind |-> "aware", utc |-> PollUtc - age, tz |-> tz]

FetchStamps ==
    {Stamp(100, 0), Stamp(1500, 0), Stamp(1500, 330), Stamp(1200, 0)}

RssItem(t, s, l, p, st) == [title |-> t, source |-> s, link |-> l, pubDate |-> p, stamp |-> st]

FetchItems ==
    {RssItem(t, s, l, "date", st) :
        t \in {"t1", "t2"}, s \in {"s1", NoneVal}, l \in {NoneVal, GoogleLink}, st \in FetchStamps}
    \cup
    {RssItem(t, s, l, NoneVal, BadDate) :
        t \in {"t1", "t2"}, s \in {"s1", NoneVal}, l \in {NoneVal, "", GoogleLink}}

FetchProcessedSets == {{}, {<<"t1", "s1">>}, {<<"t1", "s1">>, <<"t2", "Unknown">>}}

LocalZones == {-300, 0, 330}            \* utc offsets of the process, minutes

FetchInit ==
    /\ \/ resp_status = "ok" /\ rss_items \in SeqsUpTo(FetchItems, MaxFeed)
       \/ resp_status = "error" /\ rss_items = <<>>
    /\ fetch_processed \in FetchProcessedSets
    /\ fetch_clock \in {[utc |-> PollUtc, local_tz |-> z] : z \in LocalZones}
    /\ fetch_result = [done |-> FALSE, articles |-> <<>>]

FetchCall ==
    /\ ~fetch_result.done
    /\ fetch_result' = [done |-> TRUE,
                        articles |-> fetch_business_news_rss(resp_status = "ok", rss_items,
                                                            fetch_processed, fetch_clock)]
    /\ UNCHANGED <<rss_items, resp_status, fetch_processed, fetch_clock>>


(***************************************************************************)
(* get_isin_for_company (isin_matcher.py 19-102)                           *)
(*                                                                         *)
(* The reference table is [status, rows]: status "unreadable" (read_excel  *)
(* raises), "no_column" (no 'Company Name' column), "bad_cell" (a cell the *)
(* scorer raises on) or "ok".  fuzz.token_sort_ratio is an input: scorer   *)
(* maps each table name to its 0..100 score against the query.             *)
(***************************************************************************)
NaN == "NaN"

Min(a, b) == IF a <= b THEN a ELSE b

\* line 60: df[company_column].dropna().tolist()
RECURSIVE dropna_names(_)
dropna_names(rows) ==
    IF rows = <<>> THEN <<>>
    ELSE IF Head(rows).name = NaN THEN dropna_names(Tail(rows))
    ELSE <<Head(rows).name>> \o dropna_names(Tail(rows))

RemoveAt(s, i) == SubSeq(s, 1, i - 1) \o SubSeq(s, i + 1, Len(s))

\* an extract that leaves the candidates in the order of the table
kept_in_table_order(s) == s

\* sorted(..., key=score, reverse=True): stable, ties keep the list order
RECURSIVE sorted_by_score_desc(_)
sorted_by_score_desc(s) ==
    IF s = <<>> THEN <<>>
    ELSE LET best == CHOOSE i \in 1..Len(s) :
                        /\ \A j \in 1..Len(s) : s[j][2] <= s[i][2]
                        /\ \A j \in 1..(i - 1) : s[j][2] < s[i][2]
         IN  <<s[best]>> \o sorted_by_score_desc(RemoveAt(s, best))

\* line 64: process.extract(query, choices, scorer=..., limit=top_n):
\* heapq.nlargest(limit, scored, key=score), pairs (choice, score)
process_extract(choices, scorer, limit) ==
    LET scored == [i \in 1..Len(choices) |-> <<choices[i], scorer[choices[i]]>>]
        ranked == sorted_by_score_desc(scored)
    IN  SubSeq(ranked, 1, Min(Max(limit, 0), Len(ranked)))

\* line 73: df[df[company_column] == matched_name].iloc[0]
first_row_named(rows, matched_name) ==
    rows[CHOOSE i \in 1..Len(rows) :
            /\ rows[i].name = matched_name
            /\ \A j \in 1..(i - 1) : rows[j].name # matched_name]

\* lines 82-85: str(x) if pd.notna(x) else ''
str_or_empty(x) == IF x = NaN THEN "" ELSE x

\* lines 72-95
match_result(rows, matched_name, rank, score) ==
    LET row == first_row_named(rows, matched_name)
    IN  [matched_name |-> matched_name,
         isin |-> str_or_empty(row.isin),
         nse_symbol |-> str_or_empty(row.nse_symbol),
         bse_code |-> str_or_empty(row.bse_code),
         industry |-> str_or_empty(row.industry),
         rank |-> rank,
         score |-> score]

\* a matcher that keeps every candidate
below_threshold_never(score, min_score) == FALSE

\* a matcher whose threshold is ten points lower than asked
below_threshold_lowered(score, min_score) == score < min_score - 10

\* line 69: if score < min_score: continue
below_threshold(score, min_score) == score < min_score

\* lines 66-95: the loop over enumerate(matches, 1)
RECURSIVE results_loop(_, _, _, _)
results_loop(rows, matches, rank, min_score) ==
    IF rank > Len(matches) THEN <<>>
    ELSE LET rest == results_loop(rows, matches, rank + 1, min_score)
         IN  IF below_threshold(matches[rank][2], min_score) THEN rest
             ELSE <<match_result(rows, matches[rank][1], rank, matches[rank][2])>> \o rest

\* a matcher whose handler lets the exception through
matcher_handler_reraises == [raised |-> TRUE, results |-> <<>>]

\* lines 100-102: except Exception: return []
matcher_handler == [raised |-> FALSE, results |-> <<>>]

\* lines 46-102
get_isin_for_company(company_name, table, scorer, top_n, min_score) ==
    IF company_name = "" \/ company_name = NoneVal THEN [raised |-> FALSE, results |-> <<>>]
    ELSE IF table.status = "unreadable" THEN matcher_handler
    ELSE IF table.status = "no_column" THEN [raised |-> FALSE, results |-> <<>>]
    ELSE IF table.status = "bad_cell" THEN matcher_handler
    ELSE [raised |-> FALSE,
          results |-> results_loop(table.rows,
                                   process_extract(dropna_names(table.rows), scorer, top_n),
                                   1, min_score)]

(***************************************************************************)
(* The inputs of SpecMatcher                                               *)
(***************************************************************************)
TableNames == {"n1", "n2", "n3"}

TableRow(n, i, ind) ==
    [name |-> n, isin |-> i, nse_symbol |-> "SYM", bse_code |-> NaN, industry |-> ind]

TableRowValues ==
    {TableRow("n1", "INE001", "Auto"), TableRow("n1", "INE009", "Bank"),
     TableRow("n2", NaN, "IT"), TableRow("n3", "INE003", NaN),
     TableRow(NaN, "INE004", "Oil")}

SampleScores == {0, 69, 70, 95}

MatchTables ==
    {[status |-> "ok", rows |-> r] : r \in SeqsUpTo(TableRowValues, MaxRows)}
    \cup {[status |-> st, rows |-> <<TableRow("n1", "INE001", "Auto")>>] :
            st \in {"unreadable", "no_column", "bad_cell"}}

MatchInit ==
    /\ match_in \in [company_name : {"", "q"},
                      table : MatchTables,
                      scorer : [TableNames -> SampleScores],
                      top_n : 0..MaxTopN,
                      min_score : {70, 96}]
    /\ match_out = [done |-> FALSE, raised |-> FALSE, results |-> <<>>]

MatchCall ==
    /\ ~match_out.done
    /\ match_out' =
          LET r == get_isin_for_company(match_in.company_name, match_in.table,
                                        match_in.scorer, match_in.top_n, match_in.min_score)
          IN  [done |-> TRUE, raised |-> r.raised, results |-> r.results]
    /\ UNCHANGED match_in

(***************************************************************************)
(* extract_company_simple (isin.py 29-149)                                 *)
(*                                                                         *)
(* A Python str is a sequence of one-character strings.  The LLM reply is  *)
(* [kind, name_kind, company_name, confidence]: kind "api_error"           *)
(* (generate_content raises), "bad_json" (json.loads raises), "not_object" *)
(* (the JSON is not a dict) or "object"; name_kind "str", "missing" (no    *)
(* 'company_name' key) or "null"; confidence a string or "missing".        *)
(***************************************************************************)
LowerChar(c) ==
    CASE c = "A" -> "a" [] c = "B" -> "b" [] c = "E" -> "e" [] c = "L" -> "l"
      [] c = "N" -> "n" [] c = "O" -> "o" [] c = "T" -> "t"
      [] OTHER -> c

UpperChar(c) ==
    CASE c = "a" -> "A" [] c = "b" -> "B" [] c = "e" -> "E" [] c = "l" -> "L"
      [] c = "n" -> "N" [] c = "o" -> "O" [] c = "t" -> "T"
      [] c = "c" -> "C" [] c = "d" -> "D" [] c = "h" -> "H" [] c = "i" -> "I"
      [] c = "m" -> "M" [] c = "p" -> "P" [] c = "y" -> "Y"
      [] OTHER -> c

\* str.lower(), str.upper()
str_lower(s) == [i \in 1..Len(s) |-> LowerChar(s[i])]
str_upper(s) == [i \in 1..Len(s) |-> UpperChar(s[i])]

IsSpace(c) == c = " "

\* str.strip()
RECURSIVE lstrip(_)
lstrip(s) == IF s # <<>> /\ IsSpace(Head(s)) THEN lstrip(Tail(s)) ELSE s
RECURSIVE rstrip(_)
rstrip(s) == IF s # <<>> /\ IsSpace(s[Len(s)]) THEN rstrip(SubSeq(s, 1, Len(s) - 1)) ELSE s
str_strip(s) == rstrip(lstrip(s))

\* str.split(): the maximal runs of non-whitespace, in order
RECURSIVE split_from(_, _)
split_from(s, word) ==
    IF s = <<>> THEN (IF word = <<>> THEN <<>> ELSE <<word>>)
    ELSE IF IsSpace(Head(s))
         THEN (IF word = <<>> THEN <<>> ELSE <<word>>) \o split_from(Tail(s), <<>>)
         ELSE split_from(Tail(s), Append(word, Head(s)))
str_split(s) == split_from(s, <<>>)

\* needle in haystack
str_in(needle, haystack) ==
    \E i \in 0..(Len(haystack) - Len(needle)) :
        SubSeq(haystack, i + 1, i + Len(needle)) = needle

Str_NONE == <<"N", "O", "N", "E">>

\* line 110
invalid_terms ==
    {<<"c", "o", "m", "p", "a", "n", "y">>,
     <<"c", "o", "r", "p", "o", "r", "a", "t", "i", "o", "n">>,
     <<"f", "i", "r", "m">>,
     <<"b", "u", "s", "i", "n", "e", "s", "s">>,
     <<"t", "h", "e">>, <<"i", "n", "c">>, <<"l", "t", "d">>,
     <<"l", "i", "m", "i", "t", "e", "d">>}

\* line 103: result.get('confidence', 'low')
confidence_of(reply) == IF reply.confidence = "missing" THEN "low" ELSE reply.confidence

\* lines 120-123
appears_whole(company_name, article_text, article_title) ==
    \/ str_in(str_lower(company_name), str_lower(article_text))
    \/ str_in(str_lower(company_name), str_lower(article_title))

\* lines 125-131: the first word of a name of several words
appears_by_first_word(company_name, article_text, article_title) ==
    LET words == str_split(company_name)
    IN  /\ Len(words) > 1
        /\ \/ str_in(str_lower(words[1]), str_lower(article_text))
           \/ str_in(str_lower(words[1]), str_lower(article_title))

\* an extractor that trusts the LLM's name
appears_unchecked(company_name, article_text, article_title) == TRUE

\* lines 114-135
appears_in_text(company_name, article_text, article_title) ==
    \/ appears_whole(company_name, article_text, article_title)
    \/ appears_by_first_word(company_name, article_text, article_title)

\* lines 137-140
low_confidence(confidence) == confidence = "low"

\* lines 105-142, given the parsed dict
validate_company(reply, article_text, article_title) ==
    LET company_name == str_strip(reply.company_name)
    IN  IF company_name = <<>> \/ str_upper(company_name) = Str_NONE THEN <<>>
        ELSE IF str_lower(company_name) \in invalid_terms THEN <<>>
        ELSE IF ~appears_in_text(company_name, article_text, article_title) THEN <<>>
        ELSE IF low_confidence(confidence_of(reply)) THEN <<>>
        ELSE company_name

\* an extractor whose handlers let the exception through
extractor_handler_reraises == [raised |-> TRUE, llm_called |-> TRUE, name |-> <<>>]

\* lines 144-149: both handlers return ""
extractor_handler == [raised |-> FALSE, llm_called |-> TRUE, name |-> <<>>]

\* lines 47-149
extract_company_simple(api_key, article_text, article_title, reply) ==
    IF ~api_key THEN [raised |-> FALSE, llm_called |-> FALSE, name |-> <<>>]
    ELSE IF reply.kind \in {"api_error", "bad_json", "not_object"} THEN extractor_handler
    ELSE IF reply.name_kind = "null" THEN extractor_handler
    ELSE [raised |-> FALSE, llm_called |-> TRUE,
          name |-> validate_company(
                      IF reply.name_kind = "missing"
                      THEN [reply EXCEPT !.company_name = <<>>] ELSE reply,
                      article_text, article_title)]

(***************************************************************************)
(* The inputs of SpecExtract                                               *)
(***************************************************************************)
Alphabet == {"a", "A", "b", " "}

SampleNames ==
    {Str_NONE, <<"n", "o", "n", "e">>, <<"T", "h", "e">>, <<"L", "t", "d">>,
     <<"a", "b", " ", "b", "b">>}

SampleTexts ==
    {<<"t", "h", "e", " ", "a">>, <<"l", "t", "d">>, <<"A", "B", "a">>}

ExtractNames == SeqsUpTo(Alphabet, MaxNameLen) \cup SampleNames
ExtractTexts == SeqsUpTo(Alphabet, MaxTextLen) \cup SampleTexts
ExtractTitles == {<<>>, <<"b">>, <<"n", "o", "n", "e">>}

Confidences == {"high", "medium", "low", "none", "missing"}

LlmReply(k, nk, n, c) == [kind |-> k, name_kind |-> nk, company_name |-> n, confidence |-> c]

ExtractReplies ==
    {LlmReply("object", "str", n, c) : n \in ExtractNames, c \in Confidences}
    \cup {LlmReply("object", nk, <<>>, "high") : nk \in {"missing", "null"}}
    \cup {LlmReply(k, "missing", <<>>, "missing") : k \in {"api_error", "bad_json", "not_object"}}

ExtractInit ==
    /\ extract_in \in [api_key : BOOLEAN, article_text : ExtractTexts,
                        article_title : ExtractTitles, reply : ExtractReplies]
    /\ extract_out = [done |-> FALSE, raised |-> FALSE, llm_called |-> FALSE, name |-> <<>>]

ExtractCall ==
    /\ ~extract_out.done
    /\ extract_out' =
          LET r == extract_company_simple(extract_in.api_key, extract_in.article_text,
                                          extract_in.article_title, extract_in.reply)
          IN  [done |-> TRUE, raised |-> r.raised, llm_called |-> r.llm_called, name |-> r.name]
    /\ UNCHANGED extract_in

ExtractIdle ==
    /\ extract_in = [api_key |-> FALSE, article_text |-> <<>>, article_title |-> <<>>,
                     reply |-> LlmReply("api_error", "missing", <<>>, "missing")]
    /\ extract_out = [done |-> FALSE, raised |-> FALSE, llm_called |-> FALSE, name |-> <<>>]

(***************************************************************************)
(* scrape_all_articles (google_news_business_scraper.py 203-292)           *)
(*                                                                         *)
(* What the browser and the LLM do for one story is its fate:              *)
(* [resolve_ok, page, company]: whether get_story_url found a URL, the     *)
(* text scrape_article_content returned with its length, and the name      *)
(* extract_company_simple returned.                                        *)
(***************************************************************************)
MIN_ARTICLE_LENGTH == 200

ResolvedUrl == "https://example.com/story"

Page(t, n) == [text |-> t, len |-> n]

ErrorPage == Page("ERROR: Timeout 120000ms exceeded", 32)
NoContentPage == Page("NO_CONTENT", 10)

\* full_article.startswith("ERROR") or full_article.startswith("NO_CONTENT")
is_sentinel(full_article) ==
    full_article \in {ErrorPage.text, NoContentPage.text}

\* a scraper that records the length of whatever text it got
article_length_unfiltered(page) == page.len

\* line 250
article_length_of(page) == IF is_sentinel(page.text) THEN 0 ELSE page.len

\* lines 257-264: the extractor is called only above the minimum length;
\* without the API key it returns "" (isin.py 47-49)
company_name_of(page, fate_company, api_key) ==
    IF article_length_of(page) > MIN_ARTICLE_LENGTH
    THEN (IF api_key THEN fate_company ELSE "")
    ELSE ""

\* lines 229-241: None (skip the story) or the URL to scrape
story_url(article, fate) ==
    IF IsGoogleNewsUrl(article.link)
    THEN (IF fate.resolve_ok THEN ResolvedUrl ELSE NoneVal)
    ELSE article.link

\* lines 266-278
scraped_dict(article, i, fate, api_key) ==
    [title |-> article.title, source |-> article.source, url |-> story_url(article, fate),
     pub_date |-> article.pub_date, full_article |-> fate.page.text,
     article_length |-> article_length_of(fate.page),
     company_name |-> company_name_of(fate.page, fate.company, api_key),
     story_index |-> i]

\* a call of one of the two LLM-backed functions for story i; the LLM itself
\* is reached only with the API key (isin.py 47-49, prompts.py 51-57)
call_record(fn, i, api_key) == [fn |-> fn, story_index |-> i, llm |-> api_key]

\* lines 257-258: the stories extract_company_simple is called for
extractor_calls(arts, fates, api_key) ==
    {call_record("extract_company_simple", i, api_key) :
        i \in {k \in 1..Len(arts) :
                  /\ story_url(arts[k], fates[k]) # NoneVal
                  /\ article_length_of(fates[k].page) > MIN_ARTICLE_LENGTH}}

\* lines 221-288: the loop over enumerate(articles, 1)
RECURSIVE scrape_loop(_, _, _, _)
scrape_loop(arts, fates, i, api_key) ==
    IF i > Len(arts) THEN <<>>
    ELSE LET rest == scrape_loop(arts, fates, i + 1, api_key)
         IN  IF story_url(arts[i], fates[i]) = NoneVal THEN rest
             ELSE <<scraped_dict(arts[i], i, fates[i], api_key)>> \o rest

scrape_all_articles(arts, fates, api_key) ==
    IF arts = <<>> THEN <<>> ELSE scrape_loop(arts, fates, 1, api_key)

(***************************************************************************)
(* main, step 1: ISIN matches (google_news_business_scraper.py 504-541)    *)
(***************************************************************************)
\* lines 504-510: the keys of company_to_articles, in insertion order
RECURSIVE company_order(_, _)
company_order(scraped, seen) ==
    IF scraped = <<>> THEN <<>>
    ELSE LET c == Head(scraped).company_name
         IN  IF c = "" \/ c \in seen THEN company_order(Tail(scraped), seen)
             ELSE <<c>> \o company_order(Tail(scraped), seen \cup {c})

\* lines 530-535
with_isin(article, matches) ==
    [title |-> article.title, source |-> article.source, url |-> article.url,
     pub_date |-> article.pub_date, full_article |-> article.full_article,
     article_length |-> article.article_length, company_name |-> article.company_name,
     story_index |-> article.story_index,
     isin_matches |-> matches,
     primary_isin |-> matches[1].isin,
     matched_company_name |-> matches[1].matched_name,
     industry |-> matches[1].industry]

\* lines 519-541: per company, its articles when the matcher found something
RECURSIVE isin_loop(_, _, _, _)
isin_loop(companies, scraped, table, scorers) ==
    IF companies = <<>> THEN <<>>
    ELSE LET company == Head(companies)
             matches == get_isin_for_company(company, table, scorers[company], 3, 70).results
             mine == SelectSeq(scraped, LAMBDA a : a.company_name = company)
             rest == isin_loop(Tail(companies), scraped, table, scorers)
         IN  IF matches # <<>>
             THEN [k \in 1..Len(mine) |-> with_isin(mine[k], matches)] \o rest
             ELSE rest

\* lines 520-525: all_matches, the results kept per company; a company the
\* matcher returned [] for gets no entry
matches_found(scraped, table, scorers) ==
    LET companies == company_order(scraped, {})
        found(c) == get_isin_for_company(c, table, scorers[c], 3, 70).results
    IN  {[company |-> companies[k], matches |-> found(companies[k])] :
            k \in {j \in 1..Len(companies) : found(companies[j]) # <<>>}}

find_isin_matches(scraped, table, scorers) ==
    isin_loop(company_order(scraped, {}), scraped, table, scorers)

(***************************************************************************)
(* summarize_article_data, summarize_multiple_articles (prompts.py 29-185) *)
(*                                                                         *)
(* The LLM's answer for one article is "ok", "api_error" (the call         *)
(* raises), "bad_json" (json.loads raises), "not_object" (the JSON is not  *)
(* a dict), "no_keys" (a dict without the three keys) or "null_summary"    *)
(* (a dict whose "summary" is null).                                       *)
(***************************************************************************)
\* a summarizer whose handler returns nothing usable
summarizer_handler_empty ==
    [summary |-> "", numeric_data |-> <<>>, source |-> "Unknown", llm_called |-> TRUE]

\* prompts.py 128-134
summarizer_handler ==
    [summary |-> "Error processing article", numeric_data |-> <<>>, source |-> "Unknown", llm_called |-> TRUE]

\* prompts.py 51-134
summarize_article_data(api_key, answer) ==
    IF ~api_key
    THEN [summary |-> "API key not configured", numeric_data |-> <<>>, source |-> "Unknown", llm_called |-> FALSE]
    ELSE IF answer \in {"api_error", "bad_json", "not_object"}
    THEN summarizer_handler
    ELSE IF answer = "no_keys"
    THEN [summary |-> "No summary available", numeric_data |-> <<>>, source |-> "Unknown", llm_called |-> TRUE]
    ELSE IF answer = "null_summary"
    THEN [summary |-> NoneVal, numeric_data |-> <<>>, source |-> "Article/Report", llm_called |-> TRUE]
    ELSE [summary |-> "Synopsis", numeric_data |-> <<"Revenue">>, source |-> "Article/Report", llm_called |-> TRUE]

\* a summarizer that takes every article
summarizer_skips_nothing(article) == FALSE

\* prompts.py 160-165
summarizer_skips(article) ==
    \/ article.article_length < 200
    \/ is_sentinel(article.full_article)

\* prompts.py 180: ai_summary['summary'][:80] raises TypeError on None
preview_raises(ai_summary) == ai_summary.summary = NoneVal

with_summary(article, ai_summary) ==
    [title |-> article.title, source |-> article.source, url |-> article.url,
     pub_date |-> article.pub_date, company_name |-> article.company_name,
     story_index |-> article.story_index,
     matched_company_name |-> article.matched_company_name,
     industry |-> article.industry, isin_matches |-> article.isin_matches,
     article_length |-> article.article_length,
     ai_summary |-> [summary |-> ai_summary.summary, numeric_data |-> ai_summary.numeric_data,
                     source |-> ai_summary.source]]

\* prompts.py 155-185: the list built so far and whether the loop raised
RECURSIVE summarize_loop(_, _, _, _, _)
summarize_loop(arts, answers, i, api_key, acc) ==
    IF i > Len(arts) THEN [raised |-> "none", summarized |-> acc]
    ELSE IF summarizer_skips(arts[i]) THEN summarize_loop(arts, answers, i + 1, api_key, acc)
    ELSE LET ai_summary == summarize_article_data(api_key, answers[i])
             acc2 == Append(acc, with_summary(arts[i], ai_summary))
         IN  IF preview_raises(ai_summary)
             THEN [raised |-> "TypeError", summarized |-> acc2]
             ELSE summarize_loop(arts, answers, i + 1, api_key, acc2)

\* prompts.py 171-176: every article summarize_article_data was called for
\* is appended to the list before anything else is done with the result
summarizer_calls(summarized, api_key) ==
    {call_record("summarize_article_data", summarized[k].story_index, api_key) :
        k \in 1..Len(summarized)}

summarize_multiple_articles(arts, answers, api_key) ==
    IF arts = <<>> THEN [raised |-> "none", summarized |-> <<>>]
    ELSE summarize_loop(arts, answers, 1, api_key, <<>>)

(***************************************************************************)
(* format_slack_message_from_article, send_slack_message                   *)
(* (google_news_business_scraper.py 394-480)                               *)
(***************************************************************************)
\* lines 430-480: the message text, as the fields it is built from; title
\* and source are kept to tell whose message it is
format_slack_message_from_article(article) ==
    [title |-> article.title, source |-> article.source,
     company |-> article.matched_company_name,
     summary |-> article.ai_summary.summary,
     industry |-> article.industry, url |-> article.url]

\* what one requests.post does: the HTTP status of the response, or "raise"
PostStatuses == {"200", "500", "raise"}

\* a Python object handed to send_slack_message: its type, its truth value
\* and, for a str, its text
PyObject(type, truthy, text) == [type |-> type, truthy |-> truthy, text |-> text]

\* lines 562-566: the formatted texts are never blank, so all are kept
build_slack_messages(arts) ==
    [k \in 1..Len(arts) |-> PyObject("str", TRUE, format_slack_message_from_article(arts[k]))]

\* line 400: [m for m in message if m and isinstance(m, str)]
is_postable(m) == m.truthy /\ m.type = "str"

\* line 409: str(message)
str_of(m) == IF m.type = "str" THEN m.text ELSE m.type

\* a sender that gives up after the first post that is not answered 200
RECURSIVE post_loop_stops_on_failure(_, _, _, _)
post_loop_stops_on_failure(messages, statuses, i, acc) ==
    IF i > Len(messages) THEN [raised |-> "none", posts |-> acc]
    ELSE LET acc2 == Append(acc, [message |-> messages[i], status |-> statuses[i]])
         IN  IF statuses[i] = "raise"
             THEN [raised |-> "ConnectionError", posts |-> acc2]
             ELSE IF statuses[i] # "200"
             THEN [raised |-> "none", posts |-> acc2]
             ELSE post_loop_stops_on_failure(messages, statuses, i + 1, acc2)

\* lines 400-407: one requests.post per message; status "raise" is a
\* requests exception, which nothing here catches
RECURSIVE post_loop(_, _, _, _)
post_loop(messages, statuses, i, acc) ==
    IF i > Len(messages) THEN [raised |-> "none", posts |-> acc]
    ELSE LET acc2 == Append(acc, [message |-> messages[i], status |-> statuses[i]])
         IN  IF statuses[i] = "raise"
             THEN [raised |-> "ConnectionError", posts |-> acc2]
             ELSE post_loop(messages, statuses, i + 1, acc2)

\* a sender that posts whether or not SLACK_URL is set
send_without_setting(message, statuses, slack_url) ==
    post_loop(SelectSeq(message.items, is_postable), statuses, 1, <<>>)

\* lines 394-419; message is [is_list, items]: a list of objects, or one
\* object as the only element of items
send_slack_message(message, statuses, slack_url) ==
    IF ~slack_url THEN [raised |-> "none", posts |-> <<>>]
    ELSE IF message.is_list
    THEN post_loop(SelectSeq(message.items, is_postable), statuses, 1, <<>>)
    ELSE LET m == message.items[1]
         IN  post_loop(<<PyObject("str", str_of(m) # "", str_of(m))>>, statuses, 1, <<>>)

(***************************************************************************)
(* The inputs of SpecNotify                                                *)
(***************************************************************************)
NotifyObjects ==
    {PyObject("str", TRUE, "m1"), PyObject("str", TRUE, "m2"), PyObject("str", FALSE, ""),
     PyObject("NoneType", FALSE, ""), PyObject("dict", TRUE, "")}

NotifyMessages ==
    {[is_list |-> TRUE, items |-> l] : l \in SeqsUpTo(NotifyObjects, MaxMsgs)}
    \cup {[is_list |-> FALSE, items |-> <<m>>] : m \in NotifyObjects}

NotifyInit ==
    /\ notify_in \in [slack_url : BOOLEAN, message : NotifyMessages,
                       statuses : [1..MaxMsgs -> PostStatuses]]
    /\ notify_out = [done |-> FALSE, raised |-> "none", posts |-> <<>>]

NotifyCall ==
    /\ ~notify_out.done
    /\ notify_out' =
          LET r == send_slack_message(notify_in.message, notify_in.statuses, notify_in.slack_url)
          IN  [done |-> TRUE, raised |-> r.raised, posts |-> r.posts]
    /\ UNCHANGED notify_in

NotifyIdle ==
    /\ notify_in = [slack_url |-> FALSE, message |-> [is_list |-> TRUE, items |-> <<>>],
                    statuses |-> [k \in 1..MaxMsgs |-> "200"]]
    /\ notify_out = [done |-> FALSE, raised |-> "none", posts |-> <<>>]

(***************************************************************************)
(* The inputs of SpecSummarize                                             *)
(***************************************************************************)
SumAnswers == {"ok", "api_error", "bad_json", "not_object", "no_keys", "null_summary"}

\* the text and the recorded length of an article handed to the summarizer
SumBodies ==
    {Page("long text", n) : n \in {0, 199, 200, 500}}
    \cup {Page(t, n) : t \in {ErrorPage.text, NoContentPage.text}, n \in {0, 500}}

SumArticle(i, body) ==
    [title |-> "t1", source |-> "s1", url |-> ResolvedUrl, pub_date |-> "date",
     full_article |-> body.text, article_length |-> body.len, company_name |-> "c1",
     story_index |-> i, isin_matches |-> <<>>, primary_isin |-> "INE001",
     matched_company_name |-> "n1", industry |-> "Auto"]

SumInputs ==
    UNION {[api_key : BOOLEAN,
            articles : {[i \in 1..n |-> SumArticle(i, b[i])] : b \in [1..n -> SumBodies]},
            answers : [1..n -> SumAnswers]] : n \in 0..MaxArts}

SumInit ==
    /\ sum_in \in SumInputs
    /\ sum_out = [done |-> FALSE, raised |-> "none", summarized |-> <<>>, calls |-> {}]

SumCall ==
    /\ ~sum_out.done
    /\ sum_out' =
          LET r == summarize_multiple_articles(sum_in.articles, sum_in.answers, sum_in.api_key)
          IN  [done |-> TRUE, raised |-> r.raised, summarized |-> r.summarized,
               calls |-> summarizer_calls(r.summarized, sum_in.api_key)]
    /\ UNCHANGED sum_in

SumIdle ==
    /\ sum_in = [api_key |-> FALSE, articles |-> <<>>, answers |-> <<>>]
    /\ sum_out = [done |-> FALSE, raised |-> "none", summarized |-> <<>>, calls |-> {}]

(***************************************************************************)
(* The inputs of the driver                                                *)
(***************************************************************************)
DriverItems ==
    {RssItem("t1", "s1", GoogleLink, "date", Stamp(100, 0)),
     RssItem("t2", "s1", DirectLink, "date", Stamp(100, 0)),
     RssItem("t1", "s2", GoogleLink, NoneVal, BadDate),
     RssItem("t2", "s1", GoogleLink, "date", Stamp(1500, 0)),
     RssItem("t1", "s1", NoneVal, "date", Stamp(100, 0))}

DriverClock == [utc |-> PollUtc, local_tz |-> 0]

Companies == {"c1", "c2"}

EdgePage == Page("text of the minimum length", 200)
LongPage == Page("long text", 500)

Fate(r, p, c) == [resolve_ok |-> r, page |-> p, company |-> c]

Fates ==
    {Fate(FALSE, LongPage, "")}
    \cup {Fate(TRUE, p, "") : p \in {ErrorPage, NoContentPage, EdgePage, LongPage}}
    \cup {Fate(TRUE, LongPage, c) : c \in Companies}
    \cup {Fate(TRUE, EdgePage, "c1")}

DriverTable ==
    [status |-> "ok",
     rows |-> <<TableRow("n1", "INE001", "Auto"), TableRow("n2", NaN, "IT")>>]

GoodScorer == [n \in TableNames |-> IF n = "n1" THEN 95 ELSE IF n = "n2" THEN 70 ELSE 0]
PoorScorer == [n \in TableNames |-> IF n = "n1" THEN 69 ELSE 0]

SummaryAnswers == {"ok", "api_error", "null_summary"}

Configs ==
    {[gemini_key |-> TRUE, slack_url |-> TRUE],
     [gemini_key |-> TRUE, slack_url |-> FALSE],
     [gemini_key |-> FALSE, slack_url |-> TRUE]}

Durations == {0, 600, 1800, 2400}      \* seconds an iteration may have taken

\* seconds by which the local wall clock is set back or forward while an
\* iteration runs (end or start of daylight saving time), or not at all
ClockSteps == {-3600, 0, 3600}

(***************************************************************************)
(* One pass of main over one feed (google_news_business_scraper.py         *)
(* 482-584), with both keys set, an empty dedup set, every LLM answer      *)
(* usable and every post answered 200.  Feed item i has title i, so a      *)
(* title tells the position of its item in the feed.                       *)
(***************************************************************************)
StoryTitles == <<"t1", "t2", "t3", "t4">>

PassItems(i) ==
    {RssItem(StoryTitles[i], "s1", l, "date", st) :
        l \in {NoneVal, DirectLink}, st \in {Stamp(100, 0), Stamp(1500, 0)}}

PassFeeds ==
    UNION {{f \in [1..n -> UNION {PassItems(i) : i \in 1..n}] :
               \A i \in 1..n : f[i] \in PassItems(i)} : n \in 0..MaxStories}

PassFates ==
    {Fate(TRUE, NoContentPage, ""), Fate(TRUE, LongPage, "")}
    \cup {Fate(TRUE, LongPage, c) : c \in Companies}

\* lines 484-581 in one step
main_pass(feed, fates) ==
    LET arts == fetch_business_news_rss(TRUE, feed, {}, DriverClock)
        scraped == scrape_all_articles(arts, fates, TRUE)
        matched == find_isin_matches(scraped, DriverTable, [c \in Companies |-> GoodScorer])
        summarized == summarize_multiple_articles(matched, [k \in 1..Len(matched) |-> "ok"],
                                                  TRUE).summarized
        messages == build_slack_messages(summarized)
        sent == send_slack_message([is_list |-> TRUE, items |-> messages],
                                   [k \in 1..Len(messages) |-> "200"], TRUE)
    IN  [articles |-> arts, scraped |-> scraped, posts |-> sent.posts]

PassInit ==
    /\ main_in \in [feed : PassFeeds, fates : [1..MaxStories -> PassFates]]
    /\ main_out = [done |-> FALSE, articles |-> <<>>, scraped |-> <<>>, posts |-> <<>>]

PassCall ==
    /\ ~main_out.done
    /\ main_out' =
          LET r == main_pass(main_in.feed, main_in.fates)
          IN  [done |-> TRUE, articles |-> r.articles, scraped |-> r.scraped, posts |-> r.posts]
    /\ UNCHANGED main_in

PassIdle ==
    /\ main_in = [feed |-> <<>>, fates |-> [k \in 1..MaxStories |-> Fate(TRUE, LongPage, "")]]
    /\ main_out = [done |-> FALSE, articles |-> <<>>, scraped |-> <<>>, posts |-> <<>>]

(***************************************************************************)
(* The driver loop (google_news_business_scraper.py 586-674) and main      *)
(* (482-584), one action per stage                                         *)
(***************************************************************************)
INTERVAL_MINUTES == 30

NoLocals ==
    /\ articles = <<>>
    /\ scraped_articles = <<>>
    /\ articles_with_isin = <<>>
    /\ all_matches = {}
    /\ summarized_articles = <<>>
    /\ slack_messages = <<>>
    /\ posts = <<>>
    /\ llm_calls = {}
    /\ processed_articles_list = <<>>

\* the locals of main are gone once main has returned or raised
DropLocals ==
    /\ articles' = <<>>
    /\ scraped_articles' = <<>>
    /\ articles_with_isin' = <<>>
    /\ all_matches' = {}
    /\ summarized_articles' = <<>>
    /\ slack_messages' = <<>>
    /\ posts' = <<>>
    /\ llm_calls' = {}
    /\ processed_articles_list' = <<>>
    /\ rss_items' = <<>>
    /\ resp_status' = "none"

DriverInit ==
    /\ config \in Configs
    /\ webhook_log = {}
    /\ processed_articles = {}
    /\ iteration = 0
    /\ pc = "loop"
    /\ iteration_outcome = "none"
    /\ raised = "none"
    /\ stopped_by = "none"
    /\ NoLocals
    /\ rss_items = <<>>
    /\ resp_status = "none"
    /\ real_duration = 0
    /\ elapsed_time = 0
    /\ sleep_seconds = 0
    /\ slept = 0

\* main returns `result` to the driver (lines 488, 581, 584)
MainReturns(result) ==
    /\ pc' = "mark"
    /\ processed_articles_list' = result

\* an exception leaves main and reaches the driver's handlers
MainRaises(exc) ==
    /\ pc' = "except"
    /\ raised' = exc

\* lines 600-608
StartIteration ==
    /\ pc = "loop"
    /\ iteration < MaxIter
    /\ iteration' = iteration + 1
    /\ pc' = "fetch"
    /\ iteration_outcome' = "none"
    /\ real_duration' = 0
    /\ elapsed_time' = 0
    /\ sleep_seconds' = 0
    /\ slept' = 0
    /\ UNCHANGED <<config, webhook_log, processed_articles, raised, stopped_by, main_locals, rss_items, resp_status>>
    /\ UNCHANGED other_vars

\* main, lines 484-488
Fetch ==
    /\ pc = "fetch"
    /\ \E request_ok \in BOOLEAN, feed \in SeqsUpTo(DriverItems, MaxFeed) :
          /\ rss_items' = (IF request_ok THEN feed ELSE <<>>)
          /\ resp_status' = (IF request_ok THEN "ok" ELSE "error")
          /\ articles' = fetch_business_news_rss(request_ok, feed, processed_articles, DriverClock)
    /\ IF articles' = <<>>
       THEN MainReturns(<<>>)
       ELSE pc' = "scrape" /\ UNCHANGED processed_articles_list
    /\ UNCHANGED <<config, webhook_log, processed_articles, iteration, iteration_outcome, raised, stopped_by,
                   scraped_articles, articles_with_isin, all_matches, summarized_articles, slack_messages,
                   posts, llm_calls, timing_vars>>
    /\ UNCHANGED other_vars

\* main, lines 491-496 and 582-584
Scrape ==
    /\ pc = "scrape"
    /\ rss_items' = <<>>
    /\ resp_status' = "none"
    /\ \/ /\ MainRaises("PlaywrightError")       \* lines 211-217: the browser does not start
          /\ UNCHANGED <<scraped_articles, llm_calls, processed_articles_list>>
       \/ /\ \E fates \in [1..Len(articles) -> Fates] :
                /\ scraped_articles' = scrape_all_articles(articles, fates, config.gemini_key)
                /\ llm_calls' = extractor_calls(articles, fates, config.gemini_key)
          /\ IF scraped_articles' = <<>>
             THEN MainReturns(<<>>)
             ELSE pc' = "match" /\ UNCHANGED processed_articles_list
          /\ UNCHANGED raised
    /\ UNCHANGED <<config, webhook_log, processed_articles, iteration, iteration_outcome, stopped_by, articles,
                   articles_with_isin, all_matches, summarized_articles, slack_messages, posts,
                   timing_vars>>
    /\ UNCHANGED other_vars

\* main, lines 504-549 and 573-581
Match ==
    /\ pc = "match"
    /\ \E scorers \in [Companies -> {GoodScorer, PoorScorer}] :
          /\ articles_with_isin' = find_isin_matches(scraped_articles, DriverTable, scorers)
          /\ all_matches' = matches_found(scraped_articles, DriverTable, scorers)
    /\ IF articles_with_isin' = <<>>
       THEN MainReturns(articles)
       ELSE pc' = "summarize" /\ UNCHANGED processed_articles_list
    /\ UNCHANGED <<config, webhook_log, processed_articles, iteration, iteration_outcome, raised, stopped_by,
                   articles, scraped_articles, summarized_articles, slack_messages, posts, llm_calls,
                   timing_vars, rss_items, resp_status>>
    /\ UNCHANGED other_vars

\* main, lines 557-566 and 571-572
Summarize ==
    /\ pc = "summarize"
    /\ \E answers \in [1..Len(articles_with_isin) -> SummaryAnswers] :
          LET r == summarize_multiple_articles(articles_with_isin, answers, config.gemini_key)
          IN  /\ summarized_articles' = r.summarized
              /\ llm_calls' = llm_calls \cup summarizer_calls(r.summarized, config.gemini_key)
              /\ IF r.raised # "none"
                 THEN /\ MainRaises(r.raised)
                      /\ UNCHANGED <<slack_messages, processed_articles_list>>
                 ELSE IF r.summarized = <<>>
                 THEN /\ MainReturns(articles)
                      /\ UNCHANGED <<slack_messages, raised>>
                 ELSE /\ slack_messages' = build_slack_messages(r.summarized)
                      /\ pc' = "notify"
                      /\ UNCHANGED <<processed_articles_list, raised>>
    /\ UNCHANGED <<config, webhook_log, processed_articles, iteration, iteration_outcome, stopped_by, articles,
                   scraped_articles, articles_with_isin, all_matches, posts, timing_vars, rss_items,
                   resp_status>>
    /\ UNCHANGED other_vars

\* line 402: the posts the webhook accepted, with the iteration they were made in
delivered(made, n) ==
    {[key |-> <<made[k].message.text.title, made[k].message.text.source>>, iteration |-> n] :
        k \in {j \in 1..Len(made) : made[j].status = "200"}}

\* main, lines 568-569 and 581
NotifyStep ==
    /\ pc = "notify"
    /\ \E statuses \in [1..Len(slack_messages) -> PostStatuses] :
          LET r == send_slack_message([is_list |-> TRUE, items |-> slack_messages],
                                      statuses, config.slack_url)
          IN  /\ posts' = r.posts
              /\ IF r.raised # "none"
                 THEN MainRaises(r.raised) /\ UNCHANGED processed_articles_list
                 ELSE MainReturns(articles) /\ UNCHANGED raised
    /\ UNCHANGED <<config, processed_articles, iteration, iteration_outcome, stopped_by, articles,
                   scraped_articles, articles_with_isin, all_matches, summarized_articles, slack_messages,
                   llm_calls, timing_vars, rss_items, resp_status>>
    /\ UNCHANGED other_vars

Notify ==
    /\ NotifyStep
    /\ UNCHANGED webhook_log

\* the same step with the delivered posts added to the log
NotifyLogged ==
    /\ NotifyStep
    /\ webhook_log' = webhook_log \cup delivered(posts', iteration)

\* a driver that marks only the stories that were scraped
ids_of_scraped_only(list) ==
    {<<scraped_articles[k].title, scraped_articles[k].source>> : k \in 1..Len(scraped_articles)}

\* lines 616-618
ids_of(list) == {list[k].article_id : k \in 1..Len(list)}

\* a driver that keeps only the keys of the last iteration
marked_set_replacing(processed, list) == ids_of(list)

\* a driver that forgets its keys after an iteration that returned no article
marked_set_forgetting(processed, list) ==
    IF list = <<>> THEN {} ELSE processed \cup ids_of(list)

\* lines 615-618
marked_set(processed, list) == processed \cup ids_of(list)

\* lines 615-628
Mark ==
    /\ pc = "mark"
    /\ processed_articles' = marked_set(processed_articles, processed_articles_list)
    /\ pc' = "timing"
    /\ iteration_outcome' = "completed"
    /\ DropLocals
    /\ UNCHANGED <<config, webhook_log, iteration, raised, stopped_by, timing_vars>>
    /\ UNCHANGED other_vars

\* Ctrl+C while the try block of lines 610-628 runs: the frame of main is
\* unwound and KeyboardInterrupt reaches the driver
KeyboardInterruptInTry ==
    /\ pc \in {"fetch", "scrape", "match", "summarize", "notify", "mark"}
    /\ pc' = "except"
    /\ raised' = "KeyboardInterrupt"
    /\ DropLocals
    /\ UNCHANGED <<config, webhook_log, processed_articles, iteration, iteration_outcome, stopped_by,
                   timing_vars>>
    /\ UNCHANGED other_vars

\* Ctrl+C inside the marking loop of lines 617-618, after k of the returned
\* articles have been added to the set
KeyboardInterruptWhileMarking ==
    /\ pc = "mark"
    /\ \E k \in 1..Len(processed_articles_list) :
          processed_articles' =
              marked_set(processed_articles, SubSeq(processed_articles_list, 1, k))
    /\ pc' = "except"
    /\ raised' = "KeyboardInterrupt"
    /\ DropLocals
    /\ UNCHANGED <<config, webhook_log, iteration, iteration_outcome, stopped_by, timing_vars>>
    /\ UNCHANGED other_vars

\* lines 630-636
HandleInterrupt ==
    /\ pc = "except"
    /\ raised = "KeyboardInterrupt"
    /\ pc' = "stopped"
    /\ stopped_by' = "KeyboardInterrupt"
    /\ raised' = "none"
    /\ DropLocals
    /\ UNCHANGED <<config, webhook_log, processed_articles, iteration, iteration_outcome, timing_vars>>
    /\ UNCHANGED other_vars

\* a handler clause that names one exception class only
caught_only_type_errors(exc) == exc = "TypeError"

\* line 638: except Exception matches every exception class that derives
\* from Exception; KeyboardInterrupt does not
caught_by_except_exception(exc) ==
    exc \in {"PlaywrightError", "TypeError", "ConnectionError"}

\* lines 638-646; an exception no clause matches would end the process
HandleException ==
    /\ pc = "except"
    /\ raised \notin {"none", "KeyboardInterrupt"}
    /\ IF caught_by_except_exception(raised)
       THEN /\ pc' = "timing"
            /\ iteration_outcome' = "error"
            /\ UNCHANGED stopped_by
       ELSE /\ pc' = "stopped"
            /\ stopped_by' = raised
            /\ UNCHANGED iteration_outcome
    /\ raised' = "none"
    /\ DropLocals
    /\ UNCHANGED <<config, webhook_log, processed_articles, iteration, timing_vars>>
    /\ UNCHANGED other_vars

\* a driver that sleeps the whole interval after every iteration
sleep_full_interval(elapsed) == INTERVAL_MINUTES * 60

\* line 650
sleep_for(elapsed) == (INTERVAL_MINUTES * 60) - elapsed

\* lines 601 and 649: the difference of two naive datetime.now() readings,
\* taken `duration` seconds apart on a wall clock stepped by `step` in between
wall_clock_elapsed(duration, step) == duration + step

\* lines 649-659 and 670-674
ComputeSleep ==
    /\ pc = "timing"
    /\ \E duration \in Durations, step \in ClockSteps :
          /\ real_duration' = duration
          /\ elapsed_time' = wall_clock_elapsed(duration, step)
          /\ sleep_seconds' = sleep_for(elapsed_time')
    /\ pc' = (IF sleep_seconds' > 0 THEN "sleeping" ELSE "loop")
    /\ slept' = 0
    /\ UNCHANGED <<config, webhook_log, processed_articles, iteration, iteration_outcome, raised, stopped_by,
                   main_locals, rss_items, resp_status>>
    /\ UNCHANGED other_vars

\* line 662
Sleep ==
    /\ pc = "sleeping"
    /\ slept' = sleep_seconds
    /\ pc' = "loop"
    /\ UNCHANGED <<config, webhook_log, processed_articles, iteration, iteration_outcome, raised, stopped_by,
                   main_locals, rss_items, resp_status, real_duration, elapsed_time, sleep_seconds>>
    /\ UNCHANGED other_vars

\* lines 663-669
SleepInterrupted ==
    /\ pc = "sleeping"
    /\ pc' = "stopped"
    /\ stopped_by' = "KeyboardInterrupt"
    /\ UNCHANGED <<config, webhook_log, processed_articles, iteration, iteration_outcome, raised,
                   main_locals, rss_items, resp_status, timing_vars>>
    /\ UNCHANGED other_vars

DriverIdle ==
    /\ config = [gemini_key |-> FALSE, slack_url |-> FALSE]
    /\ webhook_log = {}
    /\ processed_articles = {}
    /\ iteration = 0
    /\ pc = "idle"
    /\ iteration_outcome = "none"
    /\ raised = "none"
    /\ stopped_by = "none"
    /\ NoLocals
    /\ real_duration = 0
    /\ elapsed_time = 0
    /\ sleep_seconds = 0
    /\ slept = 0

FetchOnlyIdle ==
    /\ fetch_processed = {}
    /\ fetch_clock = [utc |-> PollUtc, local_tz |-> 0]
    /\ fetch_result = [done |-> FALSE, articles |-> <<>>]

FetchIdle ==
    /\ rss_items = <<>>
    /\ resp_status = "none"
    /\ fetch_processed = {}
    /\ fetch_clock = [utc |-> PollUtc, local_tz |-> 0]
    /\ fetch_result = [done |-> FALSE, articles |-> <<>>]

MatchIdle ==
    /\ match_in = [company_name |-> "", table |-> [status |-> "ok", rows |-> <<>>],
                   scorer |-> [n \in TableNames |-> 0], top_n |-> 0, min_score |-> 0]
    /\ match_out = [done |-> FALSE, raised |-> FALSE, results |-> <<>>]

(***************************************************************************)
(* Specifications                                                          *)
(***************************************************************************)
Init == DriverInit /\ FetchOnlyIdle /\ MatchIdle /\ ExtractIdle /\ SumIdle /\ NotifyIdle /\ PassIdle

Next ==
    \/ StartIteration
    \/ Fetch
    \/ Scrape
    \/ Match
    \/ Summarize
    \/ Notify
    \/ Mark
    \/ KeyboardInterruptInTry
    \/ KeyboardInterruptWhileMarking
    \/ HandleInterrupt
    \/ HandleException
    \/ ComputeSleep
    \/ Sleep
    \/ SleepInterrupted

Spec == Init /\ [][Next]_vars

\* the driver loop with the log of delivered posts kept over its iterations
LifeNext ==
    \/ StartIteration
    \/ Fetch
    \/ Scrape
    \/ Match
    \/ Summarize
    \/ NotifyLogged
    \/ Mark
    \/ KeyboardInterruptInTry
    \/ KeyboardInterruptWhileMarking
    \/ HandleInterrupt
    \/ HandleException
    \/ ComputeSleep
    \/ Sleep
    \/ SleepInterrupted

SpecLife == Init /\ [][LifeNext]_vars

FetchNext == FetchCall /\ UNCHANGED <<match_vars, extract_vars, sum_vars, notify_vars, pass_vars, driver_vars>>

InitFetch == FetchInit /\ MatchIdle /\ ExtractIdle /\ SumIdle /\ DriverIdle /\ NotifyIdle /\ PassIdle

SpecFetch == InitFetch /\ [][FetchNext]_vars

MatchNext == MatchCall /\ UNCHANGED <<fetch_vars, extract_vars, sum_vars, notify_vars, pass_vars, driver_vars>>

InitMatcher == MatchInit /\ FetchIdle /\ ExtractIdle /\ SumIdle /\ DriverIdle /\ NotifyIdle /\ PassIdle

SpecMatcher == InitMatcher /\ [][MatchNext]_vars

ExtractNext == ExtractCall /\ UNCHANGED <<fetch_vars, match_vars, sum_vars, notify_vars, pass_vars, driver_vars>>

InitExtract == ExtractInit /\ FetchIdle /\ MatchIdle /\ SumIdle /\ DriverIdle /\ NotifyIdle /\ PassIdle

SpecExtract == InitExtract /\ [][ExtractNext]_vars

InitSummarize == SumInit /\ FetchIdle /\ MatchIdle /\ ExtractIdle /\ DriverIdle /\ NotifyIdle /\ PassIdle

SumNext == SumCall /\ UNCHANGED <<fetch_vars, match_vars, extract_vars, notify_vars, pass_vars, driver_vars>>

SpecSummarize == InitSummarize /\ [][SumNext]_vars

InitNotify == NotifyInit /\ FetchIdle /\ MatchIdle /\ ExtractIdle /\ SumIdle /\ DriverIdle /\ PassIdle

NotifyNext == NotifyCall /\ UNCHANGED <<fetch_vars, match_vars, extract_vars, sum_vars, pass_vars, driver_vars>>

SpecNotify == InitNotify /\ [][NotifyNext]_vars

InitMain == PassInit /\ FetchIdle /\ MatchIdle /\ ExtractIdle /\ SumIdle /\ NotifyIdle /\ DriverIdle

PassNext ==
    PassCall /\ UNCHANGED <<fetch_vars, match_vars, extract_vars, sum_vars, notify_vars, driver_vars>>

SpecMain == InitMain /\ [][PassNext]_vars

(***************************************************************************)
(* Properties                                                              *)
(***************************************************************************)
key_of(a) == <<a.title, a.source>>

\* the identity keys main is working on in the current iteration
InFlightKeys ==
    {articles[k].article_id : k \in 1..Len(articles)}
    \cup {key_of(scraped_articles[k]) : k \in 1..Len(scraped_articles)}
    \cup {key_of(articles_with_isin[k]) : k \in 1..Len(articles_with_isin)}
    \cup {key_of(summarized_articles[k]) : k \in 1..Len(summarized_articles)}
    \cup {key_of(slack_messages[k].text) : k \in 1..Len(slack_messages)}
    \cup {key_of(posts[k].message.text) : k \in 1..Len(posts)}

\* C1: once an identity key is in the dedup set, no later call of the
\* fetcher returns an item with that key, and no later iteration scrapes,
\* summarizes or notifies an item with that key.
C1_ProcessedKeyNeverReturned == InFlightKeys \cap processed_articles = {}

\* C1 witness: a poll of two linked items, one already processed and one
\* new, returned exactly the new one.
C1_Witness ==
    /\ pc = "scrape"
    /\ Len(rss_items) = 2
    /\ Len(articles) = 1
    /\ \E i \in 1..2 :
          /\ has_link(rss_items[i])
          /\ passes_time_filter(rss_items[i], datetime_now(DriverClock))
          /\ article_id_of(rss_items[i]) \in processed_articles

\* how often an identity key occurs in a returned list
Occurrences(list, id) == Cardinality({j \in 1..Len(list) : list[j].article_id = id})

\* C2: every identity key of a linked feed entry that is not in the dedup
\* set and is inside the lookback window appears exactly once in the list
\* the fetcher returns, also when several entries carry that key.
C2_EachNewKeyExactlyOnce ==
    fetch_result.done =>
        \A i \in 1..Len(rss_items) :
            LET item == rss_items[i]
            IN  (/\ has_link(item)
                 /\ ~parse_raises(pub_date_of(item))
                 /\ passes_time_filter(item, datetime_now(fetch_clock))
                 /\ article_id_of(item) \notin fetch_processed)
                => Occurrences(fetch_result.articles, article_id_of(item)) = 1

\* C3: a feed item published more than the lookback window before the
\* poll is not returned, whatever zone its stamp carries and whatever the
\* zone of the process is.
C3_OldItemsExcluded ==
    fetch_result.done =>
        \A i \in 1..Len(rss_items) :
            LET item == rss_items[i]
            IN  (/\ ~parse_raises(pub_date_of(item))
                 /\ item.stamp.kind = "aware"
                 /\ fetch_clock.utc - item.stamp.utc > time_window_minutes)
                => \A j \in 1..Len(fetch_result.articles) :
                      fetch_result.articles[j] # article_dict(item)

\* C4: the dedup set only grows: every step of the driver leaves a
\* superset of the set it found.
C4_DedupSetGrows == [][processed_articles \subseteq processed_articles']_vars

\* C4 witness: two iterations have each added keys.
C4_Witness ==
    /\ pc = "timing"
    /\ iteration = 2
    /\ iteration_outcome = "completed"
    /\ Cardinality(processed_articles) >= 3

\* C5: an exception raised inside an iteration is caught, the iteration is
\* recorded as failed and the loop goes on to its timing and the next
\* iteration; the loop is left only by a KeyboardInterrupt, raised during
\* the iteration or during the sleep.
C5_ExceptionsCaughtOnlyInterruptStops ==
    [][/\ (pc = "except" /\ raised # "KeyboardInterrupt")
            => (pc' = "timing" /\ iteration_outcome' = "error" /\ iteration' = iteration)
       /\ pc = "timing" => pc' \in {"sleeping", "loop"}
       /\ pc = "sleeping" => pc' \in {"loop", "stopped"}
       /\ pc = "loop" => (pc' = "fetch" /\ iteration' = iteration + 1)
       /\ pc' = "stopped"
            => /\ stopped_by' = "KeyboardInterrupt"
               /\ \/ pc = "except" /\ raised = "KeyboardInterrupt"
                  \/ pc = "sleeping"
      ]_vars

\* C5 witness: an iteration that overran the interval failed with a caught
\* exception and the loop is back at its head, ready for the next iteration.
C5_Witness ==
    /\ pc = "loop"
    /\ iteration = 1
    /\ iteration < MaxIter
    /\ iteration_outcome = "error"
    /\ elapsed_time > INTERVAL_MINUTES * 60
    /\ stopped_by = "none"

\* C6: after an iteration that took d seconds the driver sleeps 1800 - d
\* seconds when that is positive and not at all otherwise, so the next
\* iteration starts max(1800, d) seconds after the start of this one, after
\* a normal and after a failed iteration alike.
C6_SleepsTheRemainder ==
    /\ pc = "sleeping"
          => /\ sleep_seconds = INTERVAL_MINUTES * 60 - real_duration
             /\ sleep_seconds > 0
    /\ (pc = "loop" /\ iteration >= 1)
          => /\ real_duration >= INTERVAL_MINUTES * 60 => slept = 0
             /\ real_duration + slept = Max(INTERVAL_MINUTES * 60, real_duration)

\* C7: the failure of one item in a stage does not abort the iteration and
\* does not keep the other items of the batch from being carried on: every
\* eligible article is summarized and every message is posted.
C7_ItemFailureIsolated ==
    (pc \in {"mark", "except"} /\ raised \notin {"KeyboardInterrupt", "PlaywrightError"})
        => /\ raised = "none"
           /\ Len(summarized_articles)
                 = Len(SelectSeq(articles_with_isin, LAMBDA a : ~summarizer_skips(a)))
           /\ config.slack_url => Len(posts) = Len(slack_messages)

\* the names of the reference table, NaN cells dropped
MatchNames == {match_in.table.rows[i].name : i \in 1..Len(match_in.table.rows)} \ {NaN}

\* C8: every candidate the matcher returns scores at least min_score, the
\* list is in non-increasing score order and has at most top_n elements;
\* when no table entry reaches min_score the list is empty.
C8_ThresholdOrderAndLimit ==
    match_out.done =>
        LET r == match_out.results
        IN  /\ \A i \in 1..Len(r) : r[i].score >= match_in.min_score
            /\ \A i \in 1..(Len(r) - 1) : r[i].score >= r[i + 1].score
            /\ Len(r) <= match_in.top_n
            /\ (\A n \in MatchNames : match_in.scorer[n] < match_in.min_score) => r = <<>>

\* C8 witness: of three ranked candidates the last was below the threshold
\* and two were returned.
C8_Witness ==
    /\ match_out.done
    /\ match_in.top_n = 3
    /\ Len(match_out.results) = 2
    /\ \E n \in MatchNames : match_in.scorer[n] < match_in.min_score
    /\ match_out.results[1].score > match_out.results[2].score

\* C9: with an empty company name, a table without the 'Company Name'
\* column, or a table that cannot be read or scanned, the matcher returns
\* the empty list and raises nothing.
C9_MatcherNeverRaises ==
    (/\ match_out.done
     /\ \/ match_in.company_name = ""
        \/ match_in.table.status \in {"unreadable", "no_column", "bad_cell"})
    => (~match_out.raised /\ match_out.results = <<>>)

\* C9 witness: a named company was looked up in an unreadable table.
C9_Witness ==
    /\ match_out.done
    /\ match_in.company_name = "q"
    /\ match_in.table.status = "unreadable"
    /\ ~match_out.raised

\* two characters that differ at most in case
SameLetter(c, d) == LowerChar(c) = LowerChar(d)

\* needle occurs in haystack as a substring, case ignored
OccursIgnoringCase(needle, haystack) ==
    \E i \in 0..(Len(haystack) - Len(needle)) :
        \A k \in 1..Len(needle) : SameLetter(needle[k], haystack[i + k])

OccursInArticle(needle) ==
    \/ OccursIgnoringCase(needle, extract_in.article_text)
    \/ OccursIgnoringCase(needle, extract_in.article_title)

\* C10: a non-empty result of the extractor occurs, case ignored, in the
\* article text or the title, or it has more than one word and its first
\* word does.
C10_NameOccursInArticle ==
    (extract_out.done /\ extract_out.name # <<>>)
    => \/ OccursInArticle(extract_out.name)
       \/ /\ Len(str_split(extract_out.name)) > 1
          /\ OccursInArticle(str_split(extract_out.name)[1])

\* C10 witness: a name of two words was accepted on its first word alone.
C10_Witness ==
    /\ extract_out.done
    /\ extract_out.name # <<>>
    /\ ~OccursInArticle(extract_out.name)
    /\ Len(str_split(extract_out.name)) > 1

\* C11: the extractor returns a non-empty name only when the name is not a
\* generic term and the reply's confidence is not 'low', 'none' or missing.
C11_GenericAndLowestTierRejected ==
    (extract_out.done /\ extract_out.name # <<>>)
    => /\ str_lower(extract_out.name) \notin invalid_terms
       /\ extract_in.reply.confidence \notin {"low", "none", "missing"}

C12_KeylessIterationReturned ==
    /\ pc = "mark"
    /\ ~config.gemini_key
    /\ llm_calls # {}
    /\ processed_articles_list # <<>>

\* the loop of summarize_multiple_articles gets as far as article i: no
\* earlier article it took made the preview of prompts.py 180 raise
SumReaches(i) ==
    \A j \in 1..(i - 1) :
        \/ summarizer_skips(sum_in.articles[j])
        \/ ~preview_raises(summarize_article_data(sum_in.api_key, sum_in.answers[j]))

SumEntriesOf(i) ==
    {k \in 1..Len(sum_out.summarized) : sum_out.summarized[k].story_index = i}

\* C13: when the LLM call raises, the reply does not parse or is not an
\* object, the article the loop has reached is appended with a placeholder:
\* a non-empty summary text, an empty numeric_data list and source 'Unknown';
\* the failure itself raises nothing.
C13_SummarizerPlaceholder ==
    sum_out.done =>
        \A i \in 1..Len(sum_in.articles) :
            (/\ sum_in.api_key
             /\ sum_in.answers[i] \in {"api_error", "bad_json", "not_object"}
             /\ ~summarizer_skips(sum_in.articles[i])
             /\ SumReaches(i))
            => /\ \E k \in SumEntriesOf(i) :
                     LET a == sum_out.summarized[k].ai_summary
                     IN  /\ a.summary \notin {"", NoneVal}
                         /\ a.numeric_data = <<>>
                         /\ a.source = "Unknown"
               /\ (\A j \in (i + 1)..Len(sum_in.articles) :
                        \/ summarizer_skips(sum_in.articles[j])
                        \/ sum_in.answers[j] # "null_summary")
                  => sum_out.raised = "none"

\* C13 witness: the first of two articles got an unparseable reply, and both
\* are in the result.
C13_Witness ==
    /\ sum_out.done
    /\ sum_in.api_key
    /\ Len(sum_in.articles) = 2
    /\ sum_in.answers[1] = "bad_json"
    /\ sum_in.answers[2] = "ok"
    /\ Len(sum_out.summarized) = 2
    /\ sum_out.summarized[1].ai_summary.summary = "Error processing article"
    /\ sum_out.raised = "none"

\* C14: an article shorter than 200 characters, or whose text is an ERROR or
\* NO_CONTENT marker, gets no call of the summarizing function (so no LLM
\* call) and is not in the returned list.
C14_ShortAndSentinelSkipped ==
    sum_out.done =>
        \A i \in 1..Len(sum_in.articles) :
            LET a == sum_in.articles[i]
            IN  (\/ a.article_length < MIN_ARTICLE_LENGTH
                 \/ a.full_article \in {ErrorPage.text, NoContentPage.text})
                => /\ SumEntriesOf(i) = {}
                   /\ \A c \in sum_out.calls : c.story_index # i

\* C14 witness: of an article of 199 characters and one of 200, only the
\* second was summarized, with an LLM call.
C14_Witness ==
    /\ sum_out.done
    /\ Len(sum_in.articles) = 2
    /\ sum_in.articles[1].article_length = 199
    /\ sum_in.articles[2].article_length = 200
    /\ sum_in.articles[2].full_article = "long text"
    /\ Len(sum_out.summarized) = 1
    /\ sum_out.calls = {call_record("summarize_article_data", 2, TRUE)}

\* an element of the list that is a message: a str that is not empty
IsMessage(m) == m.type = "str" /\ m.text # ""

NotifyListMessages == SelectSeq(notify_in.message.items, IsMessage)

\* C15: with the webhook URL set, send_slack_message given a list performs
\* exactly one post per message of the list, in list order, whatever HTTP
\* status each post returns; elements that are not messages (an empty str,
\* an object that is not a str) get no post.
C15_OnePostPerMessage ==
    (/\ notify_out.done
     /\ notify_in.slack_url
     /\ notify_in.message.is_list
     /\ \A k \in 1..Len(NotifyListMessages) : notify_in.statuses[k] # "raise")
    => /\ Len(notify_out.posts) = Len(NotifyListMessages)
       /\ \A k \in 1..Len(NotifyListMessages) :
             /\ notify_out.posts[k].message = NotifyListMessages[k]
             /\ notify_out.posts[k].status = notify_in.statuses[k]
       /\ notify_out.raised = "none"

\* C15 witness: two messages were posted, the first answered 500.
C15_Witness ==
    /\ notify_out.done
    /\ notify_in.slack_url
    /\ notify_in.message.is_list
    /\ Len(NotifyListMessages) = 2
    /\ notify_in.statuses[1] = "500"
    /\ notify_in.statuses[2] = "200"
    /\ Len(notify_out.posts) = 2
    /\ notify_out.posts[1].message # notify_out.posts[2].message

C16_UnsentIterationReturned ==
    /\ pc = "mark"
    /\ ~config.slack_url
    /\ slack_messages # <<>>
    /\ posts = <<>>
    /\ processed_articles_list # <<>>

\* C17: when the feed request fails the fetcher returns the empty list and
\* raises nothing; main returns at once, with no scrape, no LLM call and no
\* webhook post, and the driver leaves the dedup set as it was and records
\* the iteration as completed.
C17_FailedFeedEndsIterationQuietly ==
    [][/\ (pc = "fetch" /\ resp_status' = "error")
            => /\ articles' = <<>>
               /\ raised' = "none"
               /\ pc' = "mark"
               /\ processed_articles_list' = <<>>
               /\ scraped_articles' = <<>>
               /\ llm_calls' = {}
               /\ posts' = <<>>
               /\ processed_articles' = processed_articles
       /\ (pc = "mark" /\ resp_status = "error")
            => /\ processed_articles' = processed_articles
               /\ pc' = "timing" => iteration_outcome' = "completed"
      ]_vars

\* C17 witness: the second poll failed, with keys already in the dedup set,
\* and the iteration was completed.
C17_Witness ==
    /\ pc = "mark"
    /\ iteration = 2
    /\ resp_status = "error"
    /\ processed_articles # {}
    /\ processed_articles_list = <<>>

\* the text is one of the two markers scrape_article_content returns
IsMarker(text) == text \in {ErrorPage.text, NoContentPage.text}

\* the scraped articles of this iteration whose text is a marker
MarkerStories == {k \in 1..Len(scraped_articles) : IsMarker(scraped_articles[k].full_article)}

\* a message of the notifier comes from scraped article a
MessageOf(m, a) == m.title = a.title /\ m.source = a.source /\ m.url = a.url

\* C18: a scraped article whose text is a sentinel marker has article length
\* 0 and an empty company name, the extractor is not called for it, and it
\* is in none of the lists handed to the matcher's result, the summarizer
\* and the notifier.
C18_MarkersFilteredDownstream ==
    /\ \A k \in MarkerStories :
          LET a == scraped_articles[k]
          IN  /\ a.article_length = 0
              /\ a.company_name = ""
              /\ \A c \in llm_calls : c.story_index # a.story_index
              /\ \A j \in 1..Len(articles_with_isin) :
                    articles_with_isin[j].story_index # a.story_index
              /\ \A j \in 1..Len(summarized_articles) :
                    summarized_articles[j].story_index # a.story_index
    /\ \A j \in 1..Len(slack_messages) :
          \E k \in (1..Len(scraped_articles)) \ MarkerStories :
              MessageOf(slack_messages[j].text, scraped_articles[k])
    /\ \A j \in 1..Len(posts) :
          \E k \in (1..Len(scraped_articles)) \ MarkerStories :
              MessageOf(posts[j].message.text, scraped_articles[k])

\* C18 witness: of two scraped stories one is a marker, and the other has
\* been posted.
C18_Witness ==
    /\ pc = "mark"
    /\ Len(scraped_articles) = 2
    /\ Cardinality(MarkerStories) = 1
    /\ Len(posts) = 1
    /\ raised = "none"

\* the position in the feed of the item with this title
FeedPosition(title) == CHOOSE i \in 1..Len(main_in.feed) : main_in.feed[i].title = title

\* the titles of a list are in the order of their items in the feed
InFeedOrder(titles) ==
    \A j, k \in 1..Len(titles) : j < k => FeedPosition(titles[j]) < FeedPosition(titles[k])

\* the fetcher's list keeps the order of the feed
FetchedInFeedOrder ==
    InFeedOrder([k \in 1..Len(main_out.articles) |-> main_out.articles[k].title])

\* the scraper's list keeps the order of the feed
ScrapedInFeedOrder ==
    InFeedOrder([k \in 1..Len(main_out.scraped) |-> main_out.scraped[k].title])

\* the posts are made in the order of the feed
PostedInFeedOrder ==
    InFeedOrder([k \in 1..Len(main_out.posts) |-> main_out.posts[k].message.text.title])

\* C19: within one iteration the fetched list keeps the order of the feed,
\* the stories are scraped in that order, and the webhook messages are
\* posted in the order in which their articles appear in the feed.
C19_ProcessedInRssOrder ==
    main_out.done => (FetchedInFeedOrder /\ ScrapedInFeedOrder /\ PostedInFeedOrder)

\* C19, the part that holds: the fetched and the scraped list are in feed order.
C19_FetchedAndScrapedInOrder ==
    main_out.done => (FetchedInFeedOrder /\ ScrapedInFeedOrder)

\* C20: the dedup set is modified only by the driver once main has returned
\* normally with a non-empty list; the steps of main (fetch, scrape, extract,
\* match, summarize, notify), the exception handlers and the marking of an
\* empty result leave it unchanged.
C20_DedupSetTouchedOnlyWhenMarking ==
    [][/\ (processed_articles' # processed_articles
              => (pc = "mark" /\ processed_articles_list # <<>>))
       /\ (pc \in {"fetch", "scrape", "match", "summarize", "notify", "except"}
              => processed_articles' = processed_articles)]_vars

\* a second iteration that raised has ended and the keys of the first are still there
C20_Witness ==
    /\ pc = "timing"
    /\ iteration = 2
    /\ iteration_outcome = "error"
    /\ processed_articles # {}

\* the scraped article of story i
ScrapedStory(i) == CHOOSE a \in {scraped_articles[k] : k \in 1..Len(scraped_articles)} :
                      a.story_index = i

\* the matcher's candidates kept for this company name; none when it has no entry
CandidatesFor(company) == {m \in all_matches : m.company = company}

\* post k is the message of the k-th summarized article
PostsFollowSummaries ==
    /\ Len(posts) <= Len(summarized_articles)
    /\ \A k \in 1..Len(posts) :
          posts[k].message.text = format_slack_message_from_article(summarized_articles[k])

\* C21: a message is posted for an article only if in this iteration it was
\* scraped with more than MIN_ARTICLE_LENGTH characters, the extractor gave a
\* non-empty company name for it and the matcher returned a candidate with
\* score >= 70 for that name; an article whose company has no candidate is
\* neither summarized nor notified.
C21_PostedOnlyWhenMatched ==
    /\ PostsFollowSummaries
    /\ \A k \in 1..Len(posts) :
          LET a == ScrapedStory(summarized_articles[k].story_index)
          IN  /\ a.article_length > MIN_ARTICLE_LENGTH
              /\ a.company_name # ""
              /\ \E m \in CandidatesFor(a.company_name) :
                    \E j \in 1..Len(m.matches) : m.matches[j].score >= 70
    /\ \A i \in 1..Len(scraped_articles) :
          (scraped_articles[i].company_name # "" /\ CandidatesFor(scraped_articles[i].company_name) = {})
             => \A k \in 1..Len(summarized_articles) :
                   summarized_articles[k].story_index # scraped_articles[i].story_index

\* main has returned after posting for one story while the company of the
\* other story had no candidate at or above the threshold
C21_Witness ==
    /\ pc = "mark"
    /\ Len(posts) = 1
    /\ Len(scraped_articles) = 2
    /\ \E i \in 1..2 :
          /\ scraped_articles[i].company_name # ""
          /\ CandidatesFor(scraped_articles[i].company_name) = {}

\* the feed items of the poll that carry a link
LinkedItems == {rss_items[i] : i \in {k \in 1..Len(rss_items) : has_link(rss_items[k])}}

\* C22: a feed item with a link whose publish date cannot be parsed is
\* returned by the fetcher whenever its identity key is not in the dedup
\* set; nothing is returned for a feed item without a link.
C22_UndatedKeptLinklessDropped ==
    fetch_result.done =>
        /\ \A i \in 1..Len(rss_items) :
              LET item == rss_items[i]
              IN  (/\ has_link(item)
                   /\ parse_raises(pub_date_of(item))
                   /\ article_id_of(item) \notin fetch_processed)
                  => \E j \in 1..Len(fetch_result.articles) :
                        fetch_result.articles[j] = article_dict(item)
        /\ \A j \in 1..Len(fetch_result.articles) :
              /\ fetch_result.articles[j].link \notin {NoneVal, ""}
              /\ \E item \in LinkedItems : fetch_result.articles[j] = article_dict(item)
        /\ Len(fetch_result.articles) <= Len(SelectSeq(rss_items, has_link))

\* a poll of an undated linked item and a linkless one returned the first only
C22_Witness ==
    /\ fetch_result.done
    /\ Len(rss_items) = 2
    /\ Len(fetch_result.articles) = 1
    /\ has_link(rss_items[1]) /\ parse_raises(pub_date_of(rss_items[1]))
    /\ ~has_link(rss_items[2])
    /\ fetch_result.articles[1] = article_dict(rss_items[1])

\* C23: over the life of the process no identity key is notified in two
\* different iterations, also when an iteration fails with an exception
\* after some of its posts were made.
C23_NotifiedInOneIterationOnly ==
    \A e1, e2 \in webhook_log : e1.key = e2.key => e1.iteration = e2.iteration

\* the identity keys of the items the fetcher returned in this iteration
FetchedKeys == {articles[k].article_id : k \in 1..Len(articles)}

\* C24: when an iteration ends normally and at least one article was
\* scraped, the key of every item the fetcher returned is in the dedup set
\* afterwards, whatever became of the item downstream; when nothing was
\* scraped the set is left as it was and holds none of the fetched keys.
C24_AllFetchedMarkedOrNone ==
    [][(pc = "mark" /\ pc' = "timing")
          => IF scraped_articles # <<>>
             THEN FetchedKeys \subseteq processed_articles'
             ELSE /\ processed_articles' = processed_articles
                  /\ FetchedKeys \cap processed_articles' = {}]_vars

\* the stories of the fetched items that did not get as far as a message:
\* skipped, a marker text, no company, or no match
Unnotified ==
    {i \in 1..Len(articles) :
        \A k \in 1..Len(summarized_articles) : summarized_articles[k].story_index # i}

\* main has returned its two fetched items to the driver although only one
\* of them was scraped and none was notified
C24_Witness ==
    /\ pc = "mark"
    /\ Len(articles) = 2
    /\ Len(scraped_articles) = 1
    /\ Unnotified = {1, 2}
    /\ processed_articles_list = articles

\* main has returned nothing to the driver because none of its fetched items was scraped
C24_NothingScraped ==
    /\ pc = "mark"
    /\ articles # <<>>
    /\ scraped_articles = <<>>
    /\ processed_articles_list = <<>>

\* the table entry with this name scores higher than every other name
BestEntry(n) ==
    /\ n \in MatchNames
    /\ \A m \in MatchNames \ {n} : match_in.scorer[m] < match_in.scorer[n]

\* C25: the ranks of a non-empty result are 1..k in list order and the
\* element of rank 1 has the highest score of all table entries; a table
\* entry that matches the query best, with a score at or above the
\* threshold, is returned as rank 1 with that score.
C25_RanksContiguousBestFirst ==
    match_out.done =>
        LET r == match_out.results
        IN  /\ r # <<>> =>
                  /\ \A i \in 1..Len(r) : r[i].rank = i
                  /\ \A n \in MatchNames : r[1].score >= match_in.scorer[n]
            /\ \A n \in TableNames :
                  (/\ BestEntry(n)
                   /\ match_in.scorer[n] >= match_in.min_score
                   /\ match_in.company_name # ""
                   /\ match_in.table.status = "ok"
                   /\ match_in.top_n >= 1)
                  => /\ r # <<>>
                     /\ r[1].matched_name = n
                     /\ r[1].rank = 1
                     /\ r[1].score = match_in.scorer[n]
                     /\ r[1].score >= match_in.min_score

\* the best entry stood last in a table of three names and came back as
\* rank 1 of two candidates
C25_Witness ==
    /\ match_out.done
    /\ Len(match_in.table.rows) = 3
    /\ match_in.table.status = "ok"
    /\ BestEntry(match_in.table.rows[3].name)
    /\ Len(match_out.results) = 2
    /\ match_out.results[1].matched_name = match_in.table.rows[3].name
    /\ match_out.results[2].rank = 2

====
